---------------------------- MODULE Spec2Model ----------------------------
(***************************************************************************)
(* Model of BF_extraction_iriscodes.py: Bloom-filter template protection   *)
(* of iris-codes.  One run of the script is a state machine: the key       *)
(* material is drawn, then every file of DBdir is loaded, permuted         *)
(* (add_unlinkability), encoded (extract_BFs_from_iriscode or its XOR      *)
(* variant) and saved.  An uncaught exception ends the run.                *)
(*                                                                         *)
(* The script is Python 2 code: N_BF_X / 2 on line 62..71 and 131..133 is  *)
(* used as an array index and shape, which only an integer division        *)
(* allows.  The model therefore reads / on integers as floor division.     *)
(*                                                                         *)
(* The geometry of the iris-code is scaled down so that the input space    *)
(* can be enumerated: 2 bits per block column instead of 10, 2 words per   *)
(* block instead of 32, 8 columns instead of 512, 4 rows instead of 20.    *)
(* The ratios the script relies on are kept: two bands of N_BITS_BF rows,  *)
(* an even number of block columns, and more than one block column per     *)
(* half, so that the reshape of a quadrant interleaves rows and block      *)
(* columns as it does for the reference sizes.                             *)
(***************************************************************************)
EXTENDS Integers, Sequences, FiniteSets, TLC

\* ------------------------------------------------------------------------
\* Parameters of the Bloom filter extraction (lines 45..51), scaled.
N_BITS_BF == 2
N_WORDS_BF == 2
IRIS_COLS == 8
IRIS_ROWS == 4
N_BF_X == IRIS_COLS \div N_WORDS_BF
N_BF_Y == IRIS_ROWS \div N_BITS_BF
N_BLOCKS == N_BF_X * N_BF_Y

RECURSIVE Pow2(_)
Pow2(n) == IF n = 0 THEN 1 ELSE 2 * Pow2(n - 1)

BF_SIZE == Pow2(N_BITS_BF)

\* N_BF_X / 2 and N_BITS_BF * N_BF_X / 2, as Python 2 evaluates them.
HALF_X == N_BF_X \div 2
N_GROUPS == (N_BITS_BF * N_BF_X) \div 2

\* ------------------------------------------------------------------------
\* Bounds of the model.
MaxShift == 1
MaxXORKeys == 2
MaxSamples == 2

Min(a, b) == IF a < b THEN a ELSE b
Max(a, b) == IF a > b THEN a ELSE b

\* ------------------------------------------------------------------------
\* numpy arrays.  A two-dimensional array is its shape and its elements in
\* C order; a raised exception is carried in err.
Arr(r, c, d) == [err |-> "none", ndim |-> 2, rows |-> r, cols |-> c, data |-> d]
Raise(e) == [err |-> e, ndim |-> 0, rows |-> 0, cols |-> 0, data |-> <<>>]
ObjArr(n) == [err |-> "none", ndim |-> 1, rows |-> n, cols |-> 0, data |-> <<>>]
At(a, i, j) == a.data[(i * a.cols) + j]

\* numpy.zeros(shape=[r, c], dtype=int)
Zeros(r, c) == Arr(r, c, [k \in 0 .. r * c - 1 |-> 0])

\* a[r0:r1, c0:c1]: slice bounds are clipped to the shape.
Slice(a, r0, r1, c0, c1) ==
    LET rr0 == Min(r0, a.rows)
        rr1 == Min(r1, a.rows)
        cc0 == Min(c0, a.cols)
        cc1 == Min(c1, a.cols)
        nr == Max(0, rr1 - rr0)
        nc == Max(0, cc1 - cc0)
    IN  IF a.err # "none" THEN a
        ELSE IF a.ndim # 2 THEN Raise("IndexError")
        ELSE Arr(nr, nc, [k \in 0 .. nr * nc - 1 |->
                            At(a, rr0 + (k \div nc), cc0 + (k % nc))])

\* numpy.reshape(a, [r, c]): same elements in C order, or ValueError.
Reshape(a, r, c) ==
    IF a.err # "none" THEN a
    ELSE IF a.rows * a.cols # r * c THEN Raise("ValueError")
    ELSE Arr(r, c, a.data)

\* Variant of TakeRows: row idx[i] - 1 is taken, the index wrapping around.
TakeRows_offByOne(a, idx) ==
    LET n == Cardinality(DOMAIN idx)
    IN  IF a.err # "none" THEN a
        ELSE Arr(n, a.cols, [k \in 0 .. n * a.cols - 1 |->
                 At(a, (idx[k \div a.cols] + a.rows - 1) % a.rows, (k % a.cols))])

\* a[idx, :]: row i of the result is row idx[i] of a.
TakeRows(a, idx) ==
    LET n == Cardinality(DOMAIN idx)
    IN  IF a.err # "none" THEN a
        ELSE IF \E i \in DOMAIN idx : idx[i] < 0 \/ idx[i] >= a.rows
             THEN Raise("IndexError")
        ELSE Arr(n, a.cols, [k \in 0 .. n * a.cols - 1 |->
                               At(a, idx[k \div a.cols], (k % a.cols))])

\* dst[r0:r1, c0:c1] = val: the shapes must agree.
SetSlice(dst, r0, r1, c0, c1, val) ==
    LET rr0 == Min(r0, dst.rows)
        rr1 == Min(r1, dst.rows)
        cc0 == Min(c0, dst.cols)
        cc1 == Min(c1, dst.cols)
        nr == Max(0, rr1 - rr0)
        nc == Max(0, cc1 - cc0)
    IN  IF dst.err # "none" THEN dst
        ELSE IF val.err # "none" THEN val
        ELSE IF dst.ndim # 2 THEN Raise("IndexError")
        ELSE IF val.rows # nr \/ val.cols # nc THEN Raise("ValueError")
        ELSE Arr(dst.rows, dst.cols, [k \in 0 .. dst.rows * dst.cols - 1 |->
                LET i == k \div dst.cols
                    j == k % dst.cols
                IN  IF i >= rr0 /\ i < rr1 /\ j >= cc0 /\ j < cc1
                    THEN At(val, i - rr0, j - cc0)
                    ELSE dst.data[k]])

\* ------------------------------------------------------------------------
\* State of one run of the script.
VARIABLES
    pc,          \* position in the script
    nXORKeys,    \* args.nXORKeys
    key,         \* permutation key, 4 rows of N_GROUPS indices
    xorKeys,     \* sample(range(BF_SIZE), nXORKeys), a list
    key0,        \* the key material as drawn at setup (history)
    xorKeys0,    \* the XOR key list as drawn at setup (history)
    lines,       \* f.readlines() of the current file
    feat,        \* the loaded iris-code
    featUnlink,  \* add_unlinkability(feat, key)
    featBack,    \* add_unlinkability(featUnlink, inverse key), see Invert
    bfs,         \* the extracted template
    saved,       \* a template file exists for the current file
    nDone        \* files processed so far

vars == <<pc, nXORKeys, key, xorKeys, key0, xorKeys0, lines, feat,
          featUnlink, featBack, bfs, saved, nDone>>

\* ------------------------------------------------------------------------
\* add_unlinkability (lines 57..73).

\* The row bounds and the column bounds of the four regions: 1 top left,
\* 2 top right, 3 bottom left, 4 bottom right (lines 62..65, 68..71).
QuadRows(q) ==
    IF q \in {1, 2} THEN <<0, N_BITS_BF>> ELSE <<N_BITS_BF, 2 * N_BITS_BF>>

QuadCols(q) ==
    IF q \in {1, 3} THEN <<0, HALF_X * N_WORDS_BF>>
    ELSE <<HALF_X * N_WORDS_BF, N_BF_X * N_WORDS_BF>>

\* Variant of featsAux: the fourth region repeats the column bounds of the
\* third.
featsAux_copyPaste(features, q) ==
    LET qq == IF q = 4 THEN 3 ELSE q
    IN  Reshape(Slice(features, QuadRows(q)[1], QuadRows(q)[2],
                                QuadCols(qq)[1], QuadCols(qq)[2]),
                N_GROUPS, N_WORDS_BF)

\* featsAux1 .. featsAux4 (lines 62..65): the region, reshaped to
\* [N_BITS_BF * N_BF_X / 2, N_WORDS_BF].
featsAux(features, q) ==
    Reshape(Slice(features, QuadRows(q)[1], QuadRows(q)[2],
                            QuadCols(q)[1], QuadCols(q)[2]),
            N_GROUPS, N_WORDS_BF)

\* Variant of QuadKey: region q is permuted with key row q - 1.
QuadKey_independent(q) == q - 1

\* The row of keyPERM that lines 68..71 index for each region.
QuadKey(q) == CASE q = 1 -> 0 [] q = 2 -> 2 [] q = 3 -> 2 [] q = 4 -> 3

\* numpy.reshape(featsAux[keyPERM[j, :], :],
\*               [N_BITS_BF, (N_BF_X / 2) * N_WORDS_BF])
QuadPermuted(aux, keyPERM, j) ==
    Reshape(TakeRows(aux, keyPERM[j]), N_BITS_BF, HALF_X * N_WORDS_BF)

\* perm_feat[rows of q, columns of q] = value                 (lines 68..71)
SetQuad(perm_feat, q, value) ==
    SetSlice(perm_feat, QuadRows(q)[1], QuadRows(q)[2],
                        QuadCols(q)[1], QuadCols(q)[2], value)

\* perm_feat takes its shape from the global feat, not from the parameter.
add_unlinkability(features, keyPERM) ==
    LET perm_feat == IF feat.ndim = 2 THEN Zeros(feat.rows, feat.cols)
                     ELSE ObjArr(feat.rows)
        featsAux1 == featsAux(features, 1)
        featsAux2 == featsAux(features, 2)
        featsAux3 == featsAux(features, 3)
        featsAux4 == featsAux(features, 4)
        p1 == SetQuad(perm_feat, 1, QuadPermuted(featsAux1, keyPERM, QuadKey(1)))
        p2 == SetQuad(p1, 2, QuadPermuted(featsAux2, keyPERM, QuadKey(2)))
        p3 == SetQuad(p2, 3, QuadPermuted(featsAux3, keyPERM, QuadKey(3)))
        p4 == SetQuad(p3, 4, QuadPermuted(featsAux4, keyPERM, QuadKey(4)))
    IN  IF featsAux1.err # "none" THEN featsAux1
        ELSE IF featsAux2.err # "none" THEN featsAux2
        ELSE IF featsAux3.err # "none" THEN featsAux3
        ELSE IF featsAux4.err # "none" THEN featsAux4
        ELSE p4

\* ------------------------------------------------------------------------
\* Bloom filter extraction (lines 76..125).

\* a ^ b on non-negative integers.
RECURSIVE BitXor(_, _)
BitXor(a, b) ==
    IF a = 0 /\ b = 0 THEN 0
    ELSE (((a % 2) + (b % 2)) % 2) + (2 * BitXor(a \div 2, b \div 2))

\* new_hists[:, w]
Column(new_hists, w) == [r \in 0 .. new_hists.rows - 1 |-> At(new_hists, r, w)]

\* int('0b' + ''.join([str(a) for a in hist]), 2): the first digit is the
\* most significant; -1 stands for the ValueError of a digit other than 0, 1.
RECURSIVE IntBase2(_, _)
IntBase2(hist, n) ==
    IF n = 0 THEN 0 ELSE (2 * IntBase2(hist, n - 1)) + hist[n - 1]

\* Variant of Location: the first digit is the least significant.
Location_lsbFirst(hist) ==
    LET n == Cardinality(DOMAIN hist)
    IN  IF n = 0 \/ \E r \in DOMAIN hist : hist[r] \notin {0, 1} THEN -1
        ELSE IntBase2([r \in DOMAIN hist |-> hist[n - 1 - r]], n)

Location(hist) ==
    LET n == Cardinality(DOMAIN hist)
    IN  IF n = 0 \/ \E r \in DOMAIN hist : hist[r] \notin {0, 1} THEN -1
        ELSE IntBase2(hist, n)

BF(e, v) == [err |-> e, v |-> v]
ZeroBF == BF("none", [i \in 0 .. BF_SIZE - 1 |-> 0])

\* Variant of WordLoop: the entry is incremented, bf[location] += 1.
RECURSIVE WordLoop_counting(_, _, _)
WordLoop_counting(new_hists, w, bf) ==
    IF w = N_WORDS_BF THEN bf
    ELSE IF w >= new_hists.cols THEN BF("IndexError", bf.v)
    ELSE LET location == Location(Column(new_hists, w))
         IN  IF location < 0 THEN BF("ValueError", bf.v)
             ELSE IF location >= BF_SIZE THEN BF("IndexError", bf.v)
             ELSE WordLoop_counting(new_hists, w + 1,
                    BF("none", [bf.v EXCEPT ![location] = bf.v[location] + 1]))

\* for w in range(N_WORDS_BF): ... bf[location] = int(1)      (lines 91..94)
RECURSIVE WordLoop(_, _, _)
WordLoop(new_hists, w, bf) ==
    IF w = N_WORDS_BF THEN bf
    ELSE IF w >= new_hists.cols THEN BF("IndexError", bf.v)
    ELSE LET location == Location(Column(new_hists, w))
         IN  IF location < 0 THEN BF("ValueError", bf.v)
             ELSE IF location >= BF_SIZE THEN BF("IndexError", bf.v)
             ELSE WordLoop(new_hists, w + 1,
                           BF("none", [bf.v EXCEPT ![location] = 1]))

\* Variant of KeyLoop: the loop body runs for one key only.
KeyLoop_firstOnly(location, keys, i, bf) ==
    IF i > Len(keys) THEN bf
    ELSE IF BitXor(location, keys[i]) >= BF_SIZE THEN BF("IndexError", bf.v)
    ELSE BF("none", [bf.v EXCEPT ![BitXor(location, keys[i])] = 1])

\* for k in keys: bf[location ^ k] = int(1)                  (lines 119..120)
RECURSIVE KeyLoop(_, _, _, _)
KeyLoop(location, keys, i, bf) ==
    IF i > Len(keys) THEN bf
    ELSE IF BitXor(location, keys[i]) >= BF_SIZE THEN BF("IndexError", bf.v)
    ELSE KeyLoop(location, keys, i + 1,
                 BF("none", [bf.v EXCEPT ![BitXor(location, keys[i])] = 1]))

\* for w in range(N_WORDS_BF): ... for k in keys: ...       (lines 116..120)
RECURSIVE WordLoopXOR(_, _, _, _)
WordLoopXOR(new_hists, keys, w, bf) ==
    IF w = N_WORDS_BF THEN bf
    ELSE IF w >= new_hists.cols THEN BF("IndexError", bf.v)
    ELSE LET location == Location(Column(new_hists, w))
             next == KeyLoop(location, keys, 1, bf)
         IN  IF location < 0 THEN BF("ValueError", bf.v)
             ELSE IF next.err # "none" THEN next
             ELSE WordLoopXOR(new_hists, keys, w + 1, next)

\* Variant of BlockOf: x selects the rows and y the columns.
BlockOf_swapped(f, x, y) ==
    Slice(f, x * N_BITS_BF, (x + 1) * N_BITS_BF,
             y * N_WORDS_BF, (y + 1) * N_WORDS_BF)

\* new_hists = feat[ini_y: fin_y, ini_x: fin_x]            (lines 85..89)
BlockOf(f, x, y) ==
    Slice(f, y * N_BITS_BF, (y + 1) * N_BITS_BF,
             x * N_WORDS_BF, (x + 1) * N_WORDS_BF)

\* template[index, :] = bf
SetRow(template, index, bf) ==
    IF index < 0 \/ index >= template.rows THEN Raise("IndexError")
    ELSE Arr(template.rows, template.cols,
             [k \in 0 .. template.rows * template.cols - 1 |->
                IF (k \div template.cols) = index THEN bf.v[k % template.cols]
                ELSE template.data[k]])

\* The two nested loops over x and y, with the running index (80..97).
\* keys is <<>> and xor is FALSE for extract_BFs_from_iriscode.
RECURSIVE BlockLoop(_, _, _, _, _, _, _)
BlockLoop(f, xor, keys, x, y, index, template) ==
    IF x = N_BF_X THEN template
    ELSE IF y = N_BF_Y THEN BlockLoop(f, xor, keys, x + 1, 0, index, template)
    ELSE LET new_hists == BlockOf(f, x, y)
             bf == IF xor THEN WordLoopXOR(new_hists, keys, 0, ZeroBF)
                   ELSE WordLoop(new_hists, 0, ZeroBF)
         IN  IF new_hists.err # "none" THEN new_hists
             ELSE IF bf.err # "none" THEN Raise(bf.err)
             ELSE BlockLoop(f, xor, keys, x, y + 1, index + 1,
                            SetRow(template, index, bf))

extract_BFs_from_iriscode(f) ==
    BlockLoop(f, FALSE, <<>>, 0, 0, 0, Zeros(N_BLOCKS, BF_SIZE))

extract_BFs_from_iriscode_XOR(f, keys) ==
    BlockLoop(f, TRUE, keys, 0, 0, 0, Zeros(N_BLOCKS, BF_SIZE))

\* ------------------------------------------------------------------------
\* Loading an iris-code (lines 143..144 and 158..159).

\* line.rstrip(): trailing white space is removed.
RECURSIVE RStrip(_)
RStrip(line) ==
    IF Len(line) > 0 /\ line[Len(line)] = " "
    THEN RStrip(SubSeq(line, 1, Len(line) - 1))
    ELSE line

\* int(ch) of a one-character string; -1 stands for its ValueError.
CharToInt(ch) ==
    CASE ch = "0" -> 0 [] ch = "1" -> 1 [] ch = "2" -> 2 [] OTHER -> -1

\* numpy.asarray([list(map(int, list(line.rstrip()))) for line in ...]):
\* rows of one length give a two-dimensional integer array, rows of
\* different lengths a one-dimensional array of list objects.
LoadIrisCode(ls) ==
    LET rows == [r \in 1 .. Len(ls) |-> RStrip(ls[r])]
        n == Len(ls)
        width == IF n = 0 THEN 0 ELSE Len(rows[1])
    IN  IF \E r \in 1 .. n : \E c \in 1 .. Len(rows[r]) : CharToInt(rows[r][c]) < 0
        THEN Raise("ValueError")
        ELSE IF n = 0 \/ \E r \in 1 .. n : Len(rows[r]) # width
        THEN ObjArr(n)
        ELSE Arr(n, width, [k \in 0 .. n * width - 1 |->
                    CharToInt(rows[(k \div width) + 1][(k % width) + 1])])

\* ------------------------------------------------------------------------
\* The inputs the model draws.

\* Cells of an iris-code, in C order.
Cells == 0 .. IRIS_ROWS * IRIS_COLS - 1

\* The iris-code whose 1 entries are the cells of S.
MatrixOf(S) ==
    Arr(IRIS_ROWS, IRIS_COLS, [k \in Cells |-> IF k \in S THEN 1 ELSE 0])

\* Iris-codes of the expected shape with at most one entry 1, or with at
\* most one entry 0.
UnitSets == {{}, Cells} \cup {{c} : c \in Cells} \cup {Cells \ {c} : c \in Cells}
UnitMatrices == {MatrixOf(S) : S \in UnitSets}

\* Iris-codes of the expected shape in which one block is arbitrary and
\* every entry outside it is bg.
BlockCells == 0 .. N_BITS_BF * N_WORDS_BF - 1
BlockMatrix(x, y, pattern, bg) ==
    Arr(IRIS_ROWS, IRIS_COLS, [k \in Cells |->
        LET i == k \div IRIS_COLS
            j == k % IRIS_COLS
        IN  IF /\ (i \div N_BITS_BF) = y
               /\ (j \div N_WORDS_BF) = x
            THEN pattern[((i % N_BITS_BF) * N_WORDS_BF) + (j % N_WORDS_BF)]
            ELSE bg])
BlockMatrices ==
    {BlockMatrix(x, y, pattern, bg) :
        x \in 0 .. N_BF_X - 1, y \in 0 .. N_BF_Y - 1,
        pattern \in [BlockCells -> {0, 1}], bg \in {0, 1}}

\* The file of an iris-code: IRIS_ROWS lines of IRIS_COLS characters.
LinesOf(S) ==
    [r \in 1 .. IRIS_ROWS |-> [c \in 1 .. IRIS_COLS |->
        IF ((r - 1) * IRIS_COLS) + (c - 1) \in S THEN "1" ELSE "0"]]

Bits == {"0", "1"}
BadChars == {"2", "a"}

\* Files that differ from a well-formed one in one respect.
ShortLine(ls, r) == [ls EXCEPT ![r] = SubSeq(ls[r], 1, Len(ls[r]) - 1)]
LongLine(ls, r, b) == [ls EXCEPT ![r] = Append(ls[r], b)]
BadChar(ls, r, c, ch) == [ls EXCEPT ![r][c] = ch]
AllShort(ls) == [r \in 1 .. Len(ls) |-> SubSeq(ls[r], 1, Len(ls[r]) - 1)]
AllLong(ls, b) == [r \in 1 .. Len(ls) |-> Append(ls[r], b)]

Variants(ls) ==
    {ls, AllShort(ls)}
    \cup {AllLong(ls, b) : b \in Bits}
    \cup {ShortLine(ls, r) : r \in 1 .. Len(ls)}
    \cup {LongLine(ls, r, b) : r \in 1 .. Len(ls), b \in Bits \cup {" "}}
    \cup {BadChar(ls, r, c, ch) : r \in 1 .. Len(ls), c \in {1, IRIS_COLS},
                                  ch \in BadChars}

Files == Variants(LinesOf(Cells)) \cup {LinesOf({})}

\* numpy.random.permutation(N_GROUPS) for each of the 4 rows of key: the
\* rows drawn here are rotations, by MaxShift positions in total at most.
GroupIdx == 0 .. N_GROUPS - 1
Rot(s) == [i \in GroupIdx |-> (i + s) % N_GROUPS]
KeySpace ==
    {[j \in 0 .. 3 |-> Rot(sh[j])] :
        sh \in {t \in [0 .. 3 -> 0 .. MaxShift] :
                    t[0] + t[1] + t[2] + t[3] <= MaxShift}}

IsPermutation(p) ==
    /\ DOMAIN p = GroupIdx
    /\ \A i \in GroupIdx : p[i] \in GroupIdx
    /\ \A i, j \in GroupIdx : p[i] = p[j] => i = j

\* sample(range(BF_SIZE), n): a list of n distinct elements of the range.
RECURSIVE SampleRange(_, _)
SampleRange(m, n) ==
    IF n = 0 THEN {<<>>}
    ELSE {Append(xs, k) : xs \in SampleRange(m, n - 1), k \in 0 .. m - 1}

Distinct(xs) == \A i, j \in 1 .. Len(xs) : xs[i] = xs[j] => i = j

\* Variant of Sample: the range includes its upper end.
Sample_inclusive(m, n) == {xs \in SampleRange(m + 1, n) : Distinct(xs)}

Sample(m, n) == {xs \in SampleRange(m, n) : Distinct(xs)}

\* args.nXORKeys: 0 disables the XOR mode; more keys than BF_SIZE cannot
\* be sampled.
NXORChoices == (0 .. MaxXORKeys) \cup {BF_SIZE + 1}

\* ------------------------------------------------------------------------
\* The run of the script (lines 130..166).

Unset == Raise("unset")
ZeroKey == [j \in 0 .. 3 |-> [i \in GroupIdx |-> 0]]

Init ==
    /\ pc = "setup"
    /\ nXORKeys \in NXORChoices
    /\ key = ZeroKey
    /\ xorKeys = <<>>
    /\ key0 = ZeroKey
    /\ xorKeys0 = <<>>
    /\ lines = <<>>
    /\ feat = Unset
    /\ featUnlink = Unset
    /\ featBack = Unset
    /\ bfs = Unset
    /\ saved = FALSE
    /\ nDone = 0

\* Lines 131..138: the permutation key is drawn, and the XOR keys when
\* nXORKeys is not 0; sample() raises ValueError for a sample larger than
\* the range.
Setup ==
    /\ pc = "setup"
    /\ \E k \in KeySpace :
         /\ key' = k
         /\ key0' = k
    /\ IF nXORKeys = 0
       THEN /\ pc' = "loop"
            /\ UNCHANGED <<xorKeys, xorKeys0>>
       ELSE IF nXORKeys < 0 \/ nXORKeys > BF_SIZE
       THEN /\ pc' = "failed"
            /\ UNCHANGED <<xorKeys, xorKeys0>>
       ELSE /\ pc' = "loop"
            /\ \E xs \in Sample(BF_SIZE, nXORKeys) :
                 /\ xorKeys' = xs
                 /\ xorKeys0' = xs
    /\ UNCHANGED <<nXORKeys, lines, feat, featUnlink, featBack, bfs, saved,
                   nDone>>

\* Variant of Load: the permutation key is drawn again for every file.
Load_rekey ==
    /\ pc = "loop"
    /\ nDone < MaxSamples
    /\ \E ls \in Files :
         /\ lines' = ls
         /\ feat' = LoadIrisCode(ls)
    /\ key' \in KeySpace
    /\ pc' = IF feat'.err # "none" THEN "failed" ELSE "loaded"
    /\ saved' = FALSE
    /\ featUnlink' = Unset
    /\ featBack' = Unset
    /\ bfs' = Unset
    /\ UNCHANGED <<nXORKeys, xorKeys, key0, xorKeys0, nDone>>

\* Lines 139..144 and 154..159: the next file of DBdir is read.
Load ==
    /\ pc = "loop"
    /\ nDone < MaxSamples
    /\ \E ls \in Files :
         /\ lines' = ls
         /\ feat' = LoadIrisCode(ls)
    /\ pc' = IF feat'.err # "none" THEN "failed" ELSE "loaded"
    /\ saved' = FALSE
    /\ featUnlink' = Unset
    /\ featBack' = Unset
    /\ bfs' = Unset
    /\ UNCHANGED <<nXORKeys, key, xorKeys, key0, xorKeys0, nDone>>

\* Lines 147 and 162.
Permute ==
    /\ pc = "loaded"
    /\ featUnlink' = add_unlinkability(feat, key)
    /\ pc' = IF featUnlink'.err # "none" THEN "failed" ELSE "permuted"
    /\ UNCHANGED <<nXORKeys, key, xorKeys, key0, xorKeys0, lines, feat,
                   featBack, bfs, saved, nDone>>

\* Lines 150 and 165.
Extract ==
    /\ pc = "permuted"
    /\ bfs' = IF nXORKeys # 0
              THEN extract_BFs_from_iriscode_XOR(featUnlink, xorKeys)
              ELSE extract_BFs_from_iriscode(featUnlink)
    /\ pc' = IF bfs'.err # "none" THEN "failed" ELSE "extracted"
    /\ UNCHANGED <<nXORKeys, key, xorKeys, key0, xorKeys0, lines, feat,
                   featUnlink, featBack, saved, nDone>>

\* Lines 151 and 166: numpy.savetxt writes the template file.
Save ==
    /\ pc = "extracted"
    /\ saved' = TRUE
    /\ nDone' = nDone + 1
    /\ pc' = "loop"
    /\ UNCHANGED <<nXORKeys, key, xorKeys, key0, xorKeys0, lines, feat,
                   featUnlink, featBack, bfs>>

\* os.listdir(DBdir) is exhausted.
Finish ==
    /\ pc = "loop"
    /\ pc' = "done"
    /\ UNCHANGED <<nXORKeys, key, xorKeys, key0, xorKeys0, lines, feat,
                   featUnlink, featBack, bfs, saved, nDone>>

Next == Setup \/ Load \/ Permute \/ Extract \/ Save \/ Finish

Spec == Init /\ [][Next]_vars

\* ------------------------------------------------------------------------
\* add_unlinkability as a function of its arguments: the iris-code and the
\* key are drawn, the function is applied, and it is applied once more with
\* the inverse of every row of the key.

InverseKey(k) ==
    [j \in 0 .. 3 |-> [i \in GroupIdx |-> CHOOSE m \in GroupIdx : k[j][m] = i]]

InitPerm ==
    /\ pc = "loaded"
    /\ nXORKeys = 0
    /\ key \in KeySpace
    /\ key0 = key
    /\ xorKeys = <<>>
    /\ xorKeys0 = <<>>
    /\ lines = <<>>
    /\ feat \in UnitMatrices
    /\ featUnlink = Unset
    /\ featBack = Unset
    /\ bfs = Unset
    /\ saved = FALSE
    /\ nDone = 0

Invert ==
    /\ pc = "permuted"
    /\ featBack' = add_unlinkability(featUnlink, InverseKey(key))
    /\ pc' = "inverted"
    /\ UNCHANGED <<nXORKeys, key, xorKeys, key0, xorKeys0, lines, feat,
                   featUnlink, bfs, saved, nDone>>

NextPerm == Permute \/ Invert

SpecPerm == InitPerm /\ [][NextPerm]_vars

\* ------------------------------------------------------------------------
\* The two extraction functions as functions of their arguments: the
\* permuted iris-code and the XOR key list are drawn.

InitBloom ==
    /\ pc = "permuted"
    /\ nXORKeys \in 0 .. MaxXORKeys
    /\ key = ZeroKey
    /\ key0 = ZeroKey
    /\ xorKeys \in Sample(BF_SIZE, nXORKeys)
    /\ xorKeys0 = xorKeys
    /\ lines = <<>>
    /\ feat = Unset
    /\ featUnlink \in BlockMatrices
    /\ featBack = Unset
    /\ bfs = Unset
    /\ saved = FALSE
    /\ nDone = 0

NextBloom == Extract

SpecBloom == InitBloom /\ [][NextBloom]_vars

\* ========================================================================
\* Properties of add_unlinkability, checked under SpecPerm.

\* The cells of region q of an iris-code, and the cell of row group g of
\* region q at offset w: a row group is N_WORDS_BF consecutive entries of
\* one row, and the groups of a region are numbered row by row.
InQuad(q, i, j) ==
    /\ i >= QuadRows(q)[1] /\ i < QuadRows(q)[2]
    /\ j >= QuadCols(q)[1] /\ j < QuadCols(q)[2]

QuadCells(q) == {k \in Cells : InQuad(q, k \div IRIS_COLS, k % IRIS_COLS)}

GroupCell(q, g, w) ==
    ((QuadRows(q)[1] + (g \div HALF_X)) * IRIS_COLS)
        + QuadCols(q)[1] + ((g % HALF_X) * N_WORDS_BF) + w

SameQuad(a, b, q) == \A k \in QuadCells(q) : a.data[k] = b.data[k]

Ones(a) == {k \in DOMAIN a.data : a.data[k] = 1}

Identity == [i \in GroupIdx |-> i]

\* C4: add_unlinkability returns a matrix of the shape of its input with
\* as many 1 entries, and applying it to the result with the inverse of
\* every key row gives the input back, entry for entry.
C4_PermutationInvertible ==
    /\ pc \in {"permuted", "inverted"} =>
          /\ featUnlink.err = "none"
          /\ featUnlink.rows = feat.rows /\ featUnlink.cols = feat.cols
          /\ Cardinality(Ones(featUnlink)) = Cardinality(Ones(feat))
    /\ pc = "inverted" => featBack = feat

C4_Witness ==
    /\ pc = "inverted"
    /\ \A j \in 0 .. 3 : IsPermutation(key[j])
    /\ featUnlink # feat
    /\ featBack = feat

\* The iris-codes that agree with f on region q: every entry outside the
\* region set to b, or one entry outside the region flipped.
OutsideSet(f, q, b) ==
    Arr(f.rows, f.cols, [k \in Cells |-> IF k \in QuadCells(q) THEN f.data[k] ELSE b])

OutsideFlipped(f, c) ==
    Arr(f.rows, f.cols, [k \in Cells |-> IF k = c THEN 1 - f.data[k] ELSE f.data[k]])

AgreeingOn(f, q) ==
    {OutsideSet(f, q, b) : b \in {0, 1}}
    \cup {OutsideFlipped(f, c) : c \in Cells \ QuadCells(q)}

\* C5: two iris-codes that agree on one region, permuted with the same key,
\* give results that agree on that region; and so do two keys that agree
\* on the row applied to the region, for the same iris-code.
C5_QuadrantsIndependent ==
    pc = "permuted" =>
        \A q \in 1 .. 4 :
            /\ \A other \in AgreeingOn(feat, q) :
                 SameQuad(add_unlinkability(other, key), featUnlink, q)
            /\ \A k2 \in KeySpace :
                 k2[QuadKey(q)] = key[QuadKey(q)] =>
                     SameQuad(add_unlinkability(feat, k2), featUnlink, q)

C5_Witness ==
    /\ pc = "permuted"
    /\ \E q \in 1 .. 4 :
         /\ key[QuadKey(q)] # Identity
         /\ \E k \in QuadCells(q) : feat.data[k] = 1
         /\ \E other \in AgreeingOn(feat, q) :
              /\ other # feat
              /\ add_unlinkability(other, key) # featUnlink
              /\ SameQuad(add_unlinkability(other, key), featUnlink, q)

AllPermutations == {p \in [GroupIdx -> GroupIdx] : IsPermutation(p)}

\* C9: row group g of the permuted top left region is row group key[0][g]
\* of the input's, of the top right and of the bottom left regions row
\* group key[2][g], of the bottom right region row group key[3][g]; and
\* the result is the same whatever row 1 of the key is.
C9_KeyRowOfQuadrant ==
    pc = "permuted" =>
        /\ \A g \in GroupIdx : \A w \in 0 .. N_WORDS_BF - 1 :
             /\ featUnlink.data[GroupCell(1, g, w)] = feat.data[GroupCell(1, key[0][g], w)]
             /\ featUnlink.data[GroupCell(2, g, w)] = feat.data[GroupCell(2, key[2][g], w)]
             /\ featUnlink.data[GroupCell(3, g, w)] = feat.data[GroupCell(3, key[2][g], w)]
             /\ featUnlink.data[GroupCell(4, g, w)] = feat.data[GroupCell(4, key[3][g], w)]
        /\ \A p \in AllPermutations :
             add_unlinkability(feat, [key EXCEPT ![1] = p]) = featUnlink

C9_Witness ==
    /\ pc = "permuted"
    /\ key[2] # Identity
    /\ key[1] # key[2]
    /\ \E k \in QuadCells(2) \cup QuadCells(3) : feat.data[k] # featUnlink.data[k]

\* ========================================================================
\* Properties of the two extraction functions, checked under SpecBloom.

\* The column w of the block at grid position (x, y) of f, read from the
\* top as a binary number of N_BITS_BF digits.
RECURSIVE ColValueFrom(_, _, _, _)
ColValueFrom(f, i0, j, r) ==
    IF r = N_BITS_BF THEN 0
    ELSE (f.data[((i0 + r) * f.cols) + j] * Pow2(N_BITS_BF - 1 - r))
            + ColValueFrom(f, i0, j, r + 1)

ColValue(f, x, y, w) == ColValueFrom(f, y * N_BITS_BF, (x * N_WORDS_BF) + w, 0)

ColValues(f, x, y) == {ColValue(f, x, y, w) : w \in 0 .. N_WORDS_BF - 1}

\* a XOR b, digit by digit over N_BITS_BF binary digits.
XorBits(a, b) ==
    LET digit(d) == (((a \div Pow2(d)) % 2) + ((b \div Pow2(d)) % 2)) % 2
        sum[d \in 0 .. N_BITS_BF] ==
            IF d = 0 THEN 0 ELSE sum[d - 1] + (digit(d - 1) * Pow2(d - 1))
    IN  sum[N_BITS_BF]

Range(xs) == {xs[i] : i \in 1 .. Len(xs)}

\* Row index of a template, and the indices at which it is 1.
Row(t, index) == [i \in 0 .. t.cols - 1 |-> t.data[(index * t.cols) + i]]
RowOnes(t, index) == {i \in 0 .. t.cols - 1 : t.data[(index * t.cols) + i] = 1}

BlockGrid == (0 .. N_BF_X - 1) \X (0 .. N_BF_Y - 1)

\* C1: in the template of extract_BFs_from_iriscode, the vector of every
\* block is 1 exactly at the values of the block's columns and 0 elsewhere.
C1_BloomBitsAreColumnValues ==
    (pc = "extracted" /\ nXORKeys = 0) =>
        \A b \in BlockGrid : \A i \in 0 .. BF_SIZE - 1 :
            LET bit == bfs.data[((b[1] * N_BF_Y + b[2]) * BF_SIZE) + i]
            IN  IF i \in ColValues(featUnlink, b[1], b[2])
                THEN bit = 1 ELSE bit = 0

C1_Witness ==
    /\ pc = "extracted" /\ nXORKeys = 0
    /\ \E b \in BlockGrid :
         /\ Cardinality(ColValues(featUnlink, b[1], b[2])) = 2
         /\ BF_SIZE - 1 \in ColValues(featUnlink, b[1], b[2])
         /\ 1 \in ColValues(featUnlink, b[1], b[2])
         /\ RowOnes(bfs, b[1] * N_BF_Y + b[2]) = {1, BF_SIZE - 1}

\* C2: in the template of extract_BFs_from_iriscode_XOR, the vector of
\* every block is 1 exactly at the values of the block's columns XORed with
\* the keys; with the key list <<0>> the template is the one that
\* extract_BFs_from_iriscode gives for the same matrix.
C2_XorBitsAreDiffusedValues ==
    (pc = "extracted" /\ nXORKeys # 0) =>
        /\ \A b \in BlockGrid :
             RowOnes(bfs, b[1] * N_BF_Y + b[2]) =
                 {XorBits(v, k) : v \in ColValues(featUnlink, b[1], b[2]),
                                  k \in Range(xorKeys)}
        /\ \A k \in 0 .. (N_BLOCKS * BF_SIZE) - 1 : bfs.data[k] \in {0, 1}
        /\ xorKeys = <<0>> => bfs = extract_BFs_from_iriscode(featUnlink)

C2_Witness ==
    /\ pc = "extracted"
    /\ Len(xorKeys) = 2
    /\ 0 \notin Range(xorKeys)
    /\ \E b \in BlockGrid :
         /\ Cardinality(ColValues(featUnlink, b[1], b[2])) = 2
         /\ Cardinality(RowOnes(bfs, b[1] * N_BF_Y + b[2])) = 2
         /\ \E v \in ColValues(featUnlink, b[1], b[2]) :
              v \notin RowOnes(bfs, b[1] * N_BF_Y + b[2])

\* The B-by-W sub-matrix of f whose top left entry is (r0, c0).
SubMatrix(f, r0, c0) ==
    Arr(N_BITS_BF, N_WORDS_BF, [k \in 0 .. (N_BITS_BF * N_WORDS_BF) - 1 |->
        f.data[((r0 + (k \div N_WORDS_BF)) * f.cols) + c0 + (k % N_WORDS_BF)]])

\* C6: in both functions, row x * N_BF_Y + y of the template is the Bloom
\* vector of rows [y*B, (y+1)*B) and columns [x*W, (x+1)*W) of the matrix,
\* and every template row belongs to exactly one block.
C6_RasterOrder ==
    /\ pc # "failed"
    /\ pc = "extracted" =>
          /\ \A b \in BlockGrid :
               LET sub == SubMatrix(featUnlink, b[2] * N_BITS_BF, b[1] * N_WORDS_BF)
                   bf == IF nXORKeys # 0
                         THEN WordLoopXOR(sub, xorKeys, 0, ZeroBF)
                         ELSE WordLoop(sub, 0, ZeroBF)
               IN  Row(bfs, (b[1] * N_BF_Y) + b[2]) = bf.v
          /\ \A index \in 0 .. N_BLOCKS - 1 :
               Cardinality({b \in BlockGrid : (b[1] * N_BF_Y) + b[2] = index}) = 1

C6_Witness ==
    /\ pc = "extracted"
    /\ nXORKeys # 0
    /\ \E b \in BlockGrid :
         /\ b[1] > 0 /\ b[2] > 0
         /\ \A c \in BlockGrid \ {b} :
              Row(bfs, (c[1] * N_BF_Y) + c[2]) # Row(bfs, (b[1] * N_BF_Y) + b[2])

\* C3: for a matrix of the expected shape with entries 0 and 1, both
\* functions return a template of (IRIS_COLS / W) * (IRIS_ROWS / B) rows and
\* 2^B columns whose entries are all 0 or 1.
C3_TemplateShape ==
    /\ pc # "failed"
    /\ pc = "extracted" =>
          /\ bfs.err = "none"
          /\ bfs.ndim = 2
          /\ bfs.rows = (IRIS_COLS \div N_WORDS_BF) * (IRIS_ROWS \div N_BITS_BF)
          /\ bfs.cols = Pow2(N_BITS_BF)
          /\ DOMAIN bfs.data = 0 .. (bfs.rows * bfs.cols) - 1
          /\ \A k \in DOMAIN bfs.data : bfs.data[k] \in {0, 1}

C3_Witness ==
    /\ pc = "extracted"
    /\ nXORKeys = 0
    /\ bfs.rows = N_BLOCKS /\ bfs.cols = BF_SIZE
    /\ \E b \in BlockGrid :
         /\ Cardinality(ColValues(featUnlink, b[1], b[2])) = 1
         /\ Cardinality(RowOnes(bfs, (b[1] * N_BF_Y) + b[2])) = 1

\* ========================================================================
\* Properties of the run, checked under Spec.

\* C10: the XOR keys drawn at setup are nXORKeys distinct integers of
\* 0 .. BF_SIZE - 1, location ^ k is in 0 .. BF_SIZE - 1 for every location
\* of that range and every key, and no write to bf raises IndexError.
C10_XorIndexInRange ==
    (pc # "setup" /\ nXORKeys >= 1 /\ nXORKeys <= BF_SIZE) =>
        /\ Len(xorKeys) = nXORKeys
        /\ Distinct(xorKeys)
        /\ \A k \in Range(xorKeys) : k \in 0 .. BF_SIZE - 1
        /\ \A location \in 0 .. BF_SIZE - 1 : \A k \in Range(xorKeys) :
             BitXor(location, k) \in 0 .. BF_SIZE - 1
        /\ bfs.err # "IndexError"

C10_Witness ==
    /\ pc = "extracted"
    /\ nXORKeys = 2
    /\ BF_SIZE - 1 \in Range(xorKeys)
    /\ \E index \in 0 .. N_BLOCKS - 1 : RowOnes(bfs, index) # {}

\* A file is malformed when a line, without its trailing white space, is
\* not IRIS_COLS characters long or holds a character other than 0 and 1.
Malformed(ls) ==
    \E r \in 1 .. Len(ls) :
        \/ Len(RStrip(ls[r])) # IRIS_COLS
        \/ \E c \in 1 .. Len(RStrip(ls[r])) : RStrip(ls[r])[c] \notin Bits

\* C7: no template file is written for a malformed file.
C7_MalformedNeverSaved == Malformed(lines) => ~saved

\* What the script does reject: a file with a character other than 0 and
\* 1, with a line shorter than IRIS_COLS, or with lines of different
\* lengths.
Rejected(ls) ==
    \E r \in 1 .. Len(ls) :
        \/ Len(RStrip(ls[r])) < IRIS_COLS
        \/ Len(RStrip(ls[r])) # Len(RStrip(ls[1]))
        \/ \E c \in 1 .. Len(RStrip(ls[r])) : RStrip(ls[r])[c] \notin Bits

C7_ShortRaggedOrBadCharNeverSaved ==
    Rejected(lines) => (~saved /\ pc \in {"failed", "loaded", "permuted"})

\* C8: once drawn at setup, the permutation key and the XOR key list keep
\* the values drawn, whatever files are processed; nothing is processed
\* before they are drawn.
C8_KeysFixedForRun ==
    /\ pc = "setup" => (nDone = 0 /\ lines = <<>>)
    /\ pc # "setup" => (key = key0 /\ xorKeys = xorKeys0 /\ key \in KeySpace)

C8_Witness ==
    /\ pc = "loop"
    /\ nDone = 2
    /\ nXORKeys = 2
    /\ \E j \in 0 .. 3 : key[j] # Identity
    /\ key = key0 /\ xorKeys = xorKeys0

=============================================================================
